---- MODULE Spec2Model ----
(***************************************************************************)
(* Model of buildSrc/linuxsigner.js: signer(filePath) and getPrivateKey(). *)
(*                                                                         *)
(* A path is a sequence of segments ("dist/app" is <<"dist", "app">>), a   *)
(* file is a sequence of bytes, and the filesystem maps the resolved       *)
(* location of every existing file to its bytes.  Each invocation of       *)
(* signer is a process that walks through the statements of signer and     *)
(* getPrivateKey in program order; invocations share the filesystem and    *)
(* process.env.                                                            *)
(*                                                                         *)
(* Library code (node path, fs, Buffer, node-forge) is modelled by what    *)
(* the calls return: SHA-512 as a collision-free digest, the RSA signature *)
(* as a value that binds the key pair and the digest, a PKCS#12 file as a  *)
(* tagged list of bags sealed with a passphrase check byte.                *)
(***************************************************************************)
EXTENDS Integers, Sequences, FiniteSets, TLC

\* Number of invocations of signer that may overlap.
NumProcs == 2

Procs == 1..NumProcs

\* ------------------------------------------------------------------ paths

Suffix == "-sig.bin"

RECURSIVE normalizeFrom(_, _)
normalizeFrom(done, rest) ==
    IF rest = <<>> THEN done
    ELSE LET s == Head(rest) IN
         IF s = "." THEN normalizeFrom(done, Tail(rest))
         ELSE IF s = ".." /\ done # <<>> /\ done[Len(done)] # ".."
              THEN normalizeFrom(SubSeq(done, 1, Len(done) - 1), Tail(rest))
              ELSE normalizeFrom(Append(done, s), Tail(rest))

\* path.normalize: drops "." segments and folds "x/.." lexically.
normalize(path) == normalizeFrom(<<>>, path)

\* path.dirname(filePath)
dirname(path) ==
    IF Len(path) <= 1 THEN <<".">> ELSE SubSeq(path, 1, Len(path) - 1)

\* path.basename(filePath)
basename(path) == path[Len(path)]

\* path.join(dir, name): concatenates and normalizes.
join(dir, name) == normalize(dir \o <<name>>)

\* Where the operating system finds the file a relative path names.
Resolve(path) == normalizeFrom(<<>>, path)

\* The output named without its directory: filename + '-sig.bin'.
SigOutPathNoDir(path) == <<basename(path) \o Suffix>>

\* The output under one fixed name in the target's directory.
SigOutPathShared(path) == join(dirname(path), "signature.bin")

\* const sigOutPath = path.join(dir, filename + '-sig.bin')
SigOutPathOf(path) == join(dirname(path), basename(path) \o Suffix)

\* ------------------------------------------------------------- encodings

Pad == 64

RECURSIVE encode64(_)
\* Buffer.toString('base64'): 3 bytes become 4 sextets, padded with '='.
encode64(b) ==
    IF Len(b) = 0 THEN <<>>
    ELSE IF Len(b) = 1
         THEN << b[1] \div 4, (b[1] % 4) * 16, Pad, Pad >>
    ELSE IF Len(b) = 2
         THEN << b[1] \div 4, (b[1] % 4) * 16 + (b[2] \div 16),
                 (b[2] % 16) * 4, Pad >>
    ELSE << b[1] \div 4, (b[1] % 4) * 16 + (b[2] \div 16),
            (b[2] % 16) * 4 + (b[3] \div 64), b[3] % 64 >>
         \o encode64(SubSeq(b, 4, Len(b)))

RECURSIVE decode64(_)
\* forge.util.decode64: 4 sextets become up to 3 bytes.
decode64(s) ==
    IF Len(s) < 4 THEN <<>>
    ELSE LET b1 == s[1] * 4 + (s[2] \div 16)
             b2 == (s[2] % 16) * 16 + (s[3] \div 4)
             b3 == (s[3] % 4) * 64 + s[4]
             rest == decode64(SubSeq(s, 5, Len(s)))
         IN  IF s[3] = Pad THEN <<b1>>
             ELSE IF s[4] = Pad THEN <<b1, b2>>
             ELSE <<b1, b2, b3>> \o rest

\* Buffer.toString() with the default 'utf8': a byte that is no valid
\* UTF-8 becomes U+FFFD.
toUtf8String(buf) ==
    [i \in 1..Len(buf) |-> IF buf[i] < 128 THEN buf[i] ELSE 65533]

\* Buffer.toString('binary'): one character per byte, code = byte value.
toBinaryString(buf) == [i \in 1..Len(buf) |-> buf[i]]

\* Buffer.from(str, 'binary'): one byte per character, code mod 256.
bufferFromBinary(str) == [i \in 1..Len(str) |-> str[i] % 256]

\* ---------------------------------------------------------------- crypto

\* forge.md.sha512 over the byte string: a collision-free digest, tagged
\* with the length of the message it was computed from.
sha512(str) == <<Len(str)>> \o str

\* The public half of a private key.
PublicKeyOf(key) == key + 100

\* privateKey.sign(md): RSASSA-PKCS1-v1_5 is deterministic; the signature
\* opens, under the public key, to the digest that was signed.
rsaSign(key, digest) == <<PublicKeyOf(key)>> \o digest

\* openssl dgst -sha512 -verify pub -signature sig file
Verify(pub, signature, bytes) ==
    /\ Len(signature) >= 1
    /\ signature[1] = pub
    /\ SubSeq(signature, 2, Len(signature)) = sha512(bytes)

\* --------------------------------------------------------------- PKCS#12

\* The check value a passphrase leaves in the bundle's MAC.
MacOf(pass) ==
    CASE pass = "secret" -> 7
      [] pass = "wrong"  -> 8
      [] OTHER           -> 0

\* localKeyIdHex '6FEFEE4A93634B95DD82977143D69665CA9180D2', by its first byte.
LocalKeyId == 111

RECURSIVE bagsOf(_)
\* The safe bags of the container: (type, localKeyId, key) triples; type 1
\* is a key bag, type 3 a certificate bag, which carries no key.
bagsOf(b) ==
    IF Len(b) < 3 THEN <<>>
    ELSE << [type |-> b[1], localKeyId |-> b[2],
             key |-> IF b[1] = 1 THEN b[3] ELSE 0] >>
         \o bagsOf(SubSeq(b, 4, Len(b)))

\* forge.asn1.fromDer(p12Der): throws unless the bytes are one SEQUENCE
\* (tag 0x30) holding the MAC and whole bags.
fromDerOk(der) == Len(der) >= 2 /\ der[1] = 48 /\ (Len(der) - 2) % 3 = 0

\* forge.pkcs12.pkcs12FromAsn1(p12Asn1, pass): throws when the MAC does not
\* verify under the passphrase.
pkcs12MacOk(der, pass) == der[2] = MacOf(pass)

pkcs12FromAsn1(der) == bagsOf(SubSeq(der, 3, Len(der)))

\* p12.getBags({localKeyIdHex: ...})["localKeyId"]: every bag carrying the
\* identifier, of any type, in container order.
getBags(p12bags) == SelectSeq(p12bags, LAMBDA b : b.localKeyId = LocalKeyId)

\* if (!lnk): only the bundle path is checked.
MissingLinkOnly(e) == e.LINUX_CSC_LINK = <<>>

\* if (!lnk && !pass): an error only when both are missing.
MissingBoth(e) == e.LINUX_CSC_LINK = <<>> /\ e.LINUX_CSC_KEY_PASSWORD = ""

\* if (!lnk || !pass): an unset variable and an empty one are both falsy.
\* The bundle path is a path (<<>> when unset or empty), the passphrase a
\* string ("" when unset or empty).
MissingConfig(e) == e.LINUX_CSC_LINK = <<>> \/ e.LINUX_CSC_KEY_PASSWORD = ""

\* ------------------------------------------------------------ the inputs

AppPath   == <<"dist", "app.AppImage">>
AliasPath == <<".", "dist", "tmp", "..", "app.AppImage">>
SigPath   == <<"dist", "app.AppImage-sig.bin">>
OtherPath == <<"dist", "other.AppImage">>
GonePath  == <<"dist", "gone.AppImage">>

\* The paths signer is invoked with.
TargetPaths == <<AppPath, AliasPath, SigPath, OtherPath, GonePath>>

\* What the artifact may hold.
TargetContents == {<<>>, <<65>>, <<200>>}

\* A signature file left by an earlier build.
OldSig == <<105, 1, 66>>

\* The other artifact of the build.
OtherContent == <<66>>

\* Credential bundles on disk: MAC of "secret", then the bags.
OneKeyPfx    == <<"certs", "onekey.pfx">>
TwoKeysPfx   == <<"certs", "twokeys.pfx">>
CertFirstPfx == <<"certs", "certfirst.pfx">>
NoMatchPfx   == <<"certs", "nomatch.pfx">>
CorruptPfx   == <<"certs", "corrupt.pfx">>
AbsentPfx    == <<"certs", "absent.pfx">>

Bundles ==
    (OneKeyPfx    :> <<48, 7,  1, 111, 5>>) @@
    (TwoKeysPfx   :> <<48, 7,  1, 111, 5,  1, 111, 6>>) @@
    (CertFirstPfx :> <<48, 7,  3, 111, 0,  1, 111, 5>>) @@
    (NoMatchPfx   :> <<48, 7,  1, 99, 5,   3, 99, 0>>) @@
    (CorruptPfx   :> <<48, 7,  1, 111>>)

\* The values of process.env a build may run under.
Envs ==
    { [LINUX_CSC_LINK |-> l, LINUX_CSC_KEY_PASSWORD |-> "secret"] :
        l \in {<<>>, AbsentPfx, OneKeyPfx, TwoKeysPfx, CertFirstPfx,
               NoMatchPfx, CorruptPfx} }
    \cup
    { [LINUX_CSC_LINK |-> OneKeyPfx, LINUX_CSC_KEY_PASSWORD |-> w] :
        w \in {"", "wrong"} }
    \cup
    { [LINUX_CSC_LINK |-> <<>>, LINUX_CSC_KEY_PASSWORD |-> ""] }

\* ----------------------------------------------------------------- state

VARIABLES
    env,          \* process.env: LINUX_CSC_LINK, LINUX_CSC_KEY_PASSWORD
    fs,           \* the filesystem: resolved location -> bytes
    fs0,          \* the filesystem when the invocations started
    pc,           \* each invocation's position in signer / getPrivateKey
    filePath,     \* signer's argument
    fileData,     \* const fileData
    sigOutPath,   \* const sigOutPath
    p12Der,       \* const p12Der
    p12,          \* const p12 (its safe bags)
    privateKey,   \* const privateKey (0: undefined)
    md,           \* the digest held by md
    sig,          \* const sig
    err,          \* the error the invocation threw ("" while none)
    log           \* the steps each invocation has performed, in order

vars == <<env, fs, fs0, pc, filePath, fileData, sigOutPath, p12Der, p12,
          privateKey, md, sig, err, log>>

locals == <<fileData, sigOutPath, p12Der, p12, privateKey, md, sig>>

Exists(f, path) == Resolve(path) \in DOMAIN f

\* The file at a path as a sequence of at most one content: <<>> if absent.
FileAt(f, path) == IF Exists(f, path) THEN <<f[Resolve(path)]>> ELSE <<>>

\* fs after the file at path holds data (created if absent).
Stored(f, path, data) ==
    [q \in DOMAIN f \cup {Resolve(path)} |->
        IF q = Resolve(path) THEN data ELSE f[q]]

Step(op, path) == [op |-> op, path |-> path]

\* The configuration check and the key extraction ahead of the target read.
ConfigFirstOrder ==
    <<"config", "readBundle", "parseBundle", "getBags", "readTarget",
      "digest", "sign", "write", "writing", "done">>

\* The output written before the signature is computed.
WriteBeforeSignOrder ==
    <<"readTarget", "config", "readBundle", "parseBundle", "getBags",
      "digest", "write", "writing", "sign", "done">>

\* The statements of signer in program order, getPrivateKey inlined at its
\* call on line 58: the target is read (56) before getPrivateKey checks
\* the configuration (66-70), reads the bundle (71-72), parses it (73-74)
\* and looks the bag up (84-85); then digest (59-60), sign (61) and the
\* write (62: open, then the data).
ProgramOrder ==
    <<"readTarget", "config", "readBundle", "parseBundle", "getBags",
      "digest", "sign", "write", "writing", "done">>

\* The statement that follows a statement that completed normally.
After(label) ==
    ProgramOrder[(CHOOSE i \in 1..Len(ProgramOrder) : ProgramOrder[i] = label) + 1]

Init ==
    /\ env \in Envs
    /\ \E c \in TargetContents, old \in BOOLEAN :
         LET base == Stored(Stored(Bundles, AppPath, c), OtherPath, OtherContent)
         IN  fs = IF old THEN Stored(base, SigPath, OldSig) ELSE base
    /\ fs0 = fs
    /\ \E ix \in [Procs -> 1..Len(TargetPaths)] :
         /\ \A p, q \in Procs : p <= q => ix[p] <= ix[q]
         /\ filePath = [p \in Procs |-> TargetPaths[ix[p]]]
    /\ pc = [p \in Procs |-> ProgramOrder[1]]
    /\ fileData = [p \in Procs |-> <<>>]
    /\ sigOutPath = [p \in Procs |-> <<>>]
    /\ p12Der = [p \in Procs |-> <<>>]
    /\ p12 = [p \in Procs |-> <<>>]
    /\ privateKey = [p \in Procs |-> 0]
    /\ md = [p \in Procs |-> <<>>]
    /\ sig = [p \in Procs |-> <<>>]
    /\ err = [p \in Procs |-> ""]
    /\ log = [p \in Procs |-> <<>>]

\* A statement throws: the invocation ends with the error.
Throw(p, e) ==
    /\ pc' = [pc EXCEPT ![p] = "failed"]
    /\ err' = [err EXCEPT ![p] = e]

\* A statement completes: control moves to the next one.
Continue(p) ==
    /\ pc' = [pc EXCEPT ![p] = After(pc[p])]
    /\ err' = err

Logged(p, op, path) == log' = [log EXCEPT ![p] = Append(@, Step(op, path))]

\* ------------------------------------------------------------- signer

\* Lines 53-57: read the target, then name the output.
ReadTarget(p) ==
    /\ pc[p] = "readTarget"
    /\ Logged(p, "readTarget", Resolve(filePath[p]))
    /\ IF Exists(fs, filePath[p])
       THEN /\ fileData' = [fileData EXCEPT ![p] = fs[Resolve(filePath[p])]]
            /\ sigOutPath' = [sigOutPath EXCEPT ![p] = SigOutPathOf(filePath[p])]
            /\ Continue(p)
       ELSE /\ Throw(p, "ENOENT")
            /\ UNCHANGED <<fileData, sigOutPath>>
    /\ UNCHANGED <<env, fs, fs0, filePath, p12Der, p12, privateKey, md, sig>>

\* Lines 66-70: getPrivateKey reads the two variables and checks them.
CheckEnv(p) ==
    /\ pc[p] = "config"
    /\ Logged(p, "config", <<>>)
    /\ IF MissingConfig(env)
       THEN Throw(p, "ConfigError")
       ELSE Continue(p)
    /\ UNCHANGED <<env, fs, fs0, filePath, locals>>

\* Lines 71-72: read the bundle, to base64 and back to a byte string.
ReadBundle(p) ==
    /\ pc[p] = "readBundle"
    /\ Logged(p, "readBundle", Resolve(env.LINUX_CSC_LINK))
    /\ IF Exists(fs, env.LINUX_CSC_LINK)
       THEN /\ p12Der' = [p12Der EXCEPT ![p] =
                  decode64(encode64(fs[Resolve(env.LINUX_CSC_LINK)]))]
            /\ Continue(p)
       ELSE /\ Throw(p, "ENOENT")
            /\ UNCHANGED p12Der
    /\ UNCHANGED <<env, fs, fs0, filePath, fileData, sigOutPath, p12,
                   privateKey, md, sig>>

\* Lines 73-74: parse the DER and decrypt with the passphrase.
ParseBundle(p) ==
    /\ pc[p] = "parseBundle"
    /\ Logged(p, "parseBundle", <<>>)
    /\ IF ~fromDerOk(p12Der[p])
       THEN Throw(p, "DerError") /\ UNCHANGED p12
       ELSE IF ~pkcs12MacOk(p12Der[p], env.LINUX_CSC_KEY_PASSWORD)
       THEN Throw(p, "MacError") /\ UNCHANGED p12
       ELSE /\ p12' = [p12 EXCEPT ![p] = pkcs12FromAsn1(p12Der[p])]
            /\ Continue(p)
    /\ UNCHANGED <<env, fs, fs0, filePath, fileData, sigOutPath, p12Der,
                   privateKey, md, sig>>

\* bag[0].key: reading .key of undefined throws a TypeError; the first
\* match is taken whatever its type and however many matches there are.
FirstKey(bag) == bag[1].key

\* return bag[0] && bag[0].key: no match hands undefined to the caller.
GetBagOptional(p) ==
    /\ pc[p] = "getBags"
    /\ Logged(p, "getBags", <<>>)
    /\ LET bag == getBags(p12[p]) IN
       privateKey' = [privateKey EXCEPT ![p] =
                        IF Len(bag) = 0 THEN 0 ELSE FirstKey(bag)]
    /\ Continue(p)
    /\ UNCHANGED <<env, fs, fs0, filePath, fileData, sigOutPath, p12Der,
                   p12, md, sig>>

\* Lines 84-85: look the bag up and return its key.
GetBag(p) ==
    /\ pc[p] = "getBags"
    /\ Logged(p, "getBags", <<>>)
    /\ LET bag == getBags(p12[p]) IN
       IF Len(bag) = 0
       THEN Throw(p, "TypeError") /\ UNCHANGED privateKey
       ELSE /\ privateKey' = [privateKey EXCEPT ![p] = FirstKey(bag)]
            /\ Continue(p)
    /\ UNCHANGED <<env, fs, fs0, filePath, fileData, sigOutPath, p12Der,
                   p12, md, sig>>

\* Lines 59-60: digest the file's bytes.
Digest(p) ==
    /\ pc[p] = "digest"
    /\ Logged(p, "digest", <<>>)
    /\ md' = [md EXCEPT ![p] = sha512(toBinaryString(fileData[p]))]
    /\ Continue(p)
    /\ UNCHANGED <<env, fs, fs0, filePath, fileData, sigOutPath, p12Der,
                   p12, privateKey, sig>>

\* Line 61: privateKey.sign(md); calling .sign of undefined throws.
Sign(p) ==
    /\ pc[p] = "sign"
    /\ Logged(p, "sign", <<>>)
    /\ IF privateKey[p] = 0
       THEN Throw(p, "TypeError") /\ UNCHANGED sig
       ELSE /\ sig' = [sig EXCEPT ![p] =
                  bufferFromBinary(rsaSign(privateKey[p], md[p]))]
            /\ Continue(p)
    /\ UNCHANGED <<env, fs, fs0, filePath, fileData, sigOutPath, p12Der,
                   p12, privateKey, md>>

\* Line 62, fs.writeFileSync opening sigOutPath with flag 'w': the file is
\* created or truncated in place, unless the open is refused.
WriteOpen(p) ==
    /\ pc[p] = "write"
    /\ Logged(p, "write", Resolve(sigOutPath[p]))
    /\ \/ /\ fs' = Stored(fs, sigOutPath[p], <<>>)
          /\ Continue(p)
       \/ /\ Throw(p, "EACCES")
          /\ UNCHANGED fs
    /\ UNCHANGED <<env, fs0, filePath, locals>>

\* Line 62, fs.writeFileSync writing the bytes into the open file: all of
\* them, or a proper prefix when the write is cut short (disk full, I/O
\* error).
WriteData(p) ==
    /\ pc[p] = "writing"
    /\ \/ /\ fs' = Stored(fs, sigOutPath[p], sig[p])
          /\ Continue(p)
       \/ \E n \in 0..(Len(sig[p]) - 1) :
            /\ fs' = Stored(fs, sigOutPath[p], SubSeq(sig[p], 1, n))
            /\ Throw(p, "EIO")
    /\ UNCHANGED <<env, fs0, filePath, locals, log>>

Next ==
    \E p \in Procs :
        \/ ReadTarget(p)
        \/ CheckEnv(p)
        \/ ReadBundle(p)
        \/ ParseBundle(p)
        \/ GetBag(p)
        \/ Digest(p)
        \/ Sign(p)
        \/ WriteOpen(p)
        \/ WriteData(p)

Spec == Init /\ [][Next]_vars

\* ------------------------------------------------------------ properties

\* A required configuration value is absent or empty.
ConfigAbsent == env.LINUX_CSC_LINK = <<>> \/ env.LINUX_CSC_KEY_PASSWORD = ""

\* The names of the steps an invocation has performed, in order.
Ops(p) == [i \in 1..Len(log[p]) |-> log[p][i].op]

Did(p, op) == \E i \in 1..Len(log[p]) : log[p][i].op = op

IsPrefix(a, b) == Len(a) <= Len(b) /\ a = SubSeq(b, 1, Len(a))

\* <filePath>-sig.bin: the path with the literal suffix appended.
OutputPath(path) ==
    SubSeq(path, 1, Len(path) - 1) \o <<path[Len(path)] \o "-sig.bin">>

\* The location of an invocation's <filePath>-sig.bin.
OutLoc(p) == Resolve(OutputPath(filePath[p]))

\* The locations an invocation has opened for writing, in order.
WritePaths(p) ==
    LET w == SelectSeq(log[p], LAMBDA e : e.op = "write")
    IN  [i \in 1..Len(w) |-> w[i].path]

Ended(p) == pc[p] \in {"done", "failed"}

\* No other invocation has opened this invocation's output for writing.
SoleWriter(p) ==
    \A q \in Procs \ {p} : OutLoc(q) = OutLoc(p) => ~Did(q, "write")

C2_MissingConfigLeavesFsUntouched ==
    ConfigAbsent =>
        /\ fs = fs0
        /\ \A p \in Procs :
             /\ pc[p] \in {"readTarget", "config", "failed"}
             /\ ~Did(p, "write")
             /\ Ended(p) => err[p] # ""

C2_Witness ==
    /\ ConfigAbsent
    /\ \A p \in Procs : pc[p] = "failed"
    /\ \E p \in Procs : ~Exists(fs, OutputPath(filePath[p]))
    /\ fs = fs0

\* The bundle has been read and decrypted by the invocation.
Decrypted(p) == pc[p] = "getBags" \/ Did(p, "getBags")

\* How many bags of the decrypted bundle carry the fixed identifier.
MatchCount(p) ==
    Cardinality({i \in 1..Len(p12[p]) : p12[p][i].localKeyId = LocalKeyId})

\* C3: when no bag of the decrypted bundle carries the fixed identifier,
\* the bag lookup throws: no key is returned, the digest, sign and write
\* steps never run, and the output file is left as it was.
C3_NoMatchingBagIsAnError ==
    \A p \in Procs :
        (Decrypted(p) /\ MatchCount(p) = 0) =>
            /\ pc[p] \in {"getBags", "failed"}
            /\ pc[p] = "failed" => err[p] = "TypeError"
            /\ privateKey[p] = 0
            /\ ~Did(p, "digest") /\ ~Did(p, "sign") /\ ~Did(p, "write")
            /\ SoleWriter(p) =>
                 FileAt(fs, OutputPath(filePath[p])) =
                 FileAt(fs0, OutputPath(filePath[p]))

C3_Witness ==
    \E p \in Procs :
        /\ Did(p, "getBags") /\ MatchCount(p) = 0
        /\ pc[p] = "failed" /\ err[p] = "TypeError"

\* C4 as stated: a signature is produced only when exactly one bag matches
\* the fixed identifier.
C4_SignsOnlyWithExactlyOneMatch ==
    \A p \in Procs : Did(p, "sign") /\ sig[p] # <<>> => MatchCount(p) = 1

\* A complete signature of some invocation.
CompleteSig(content) == \E q \in Procs : sig[q] # <<>> /\ content = sig[q]

\* C5 as stated: after a fatal outcome the file at <filePath>-sig.bin is
\* untouched or holds a complete signature.
C5_NoPartialSignatureFile ==
    \A p \in Procs :
        pc[p] = "failed" =>
            LET now == FileAt(fs, OutputPath(filePath[p]))
            IN  \/ now = FileAt(fs0, OutputPath(filePath[p]))
                \/ now # <<>> /\ CompleteSig(now[1])

TamperedContents == {<<>>, <<65>>, <<66>>, <<200>>, <<201>>, <<65, 0>>, <<0, 65>>}

\* C7: after a successful invocation whose target no invocation writes, the
\* output file (while no other invocation writes it) verifies under the
\* public half of the extracted key against the bytes of the target, and
\* against no content that differs from them.
C7_SignatureVerifiesRoundTrip ==
    \A p \in Procs :
        (/\ pc[p] = "done"
         /\ SoleWriter(p)
         /\ \A q \in Procs : OutLoc(q) # Resolve(filePath[p])) =>
            LET bytes == fs0[Resolve(filePath[p])]
                pub == PublicKeyOf(privateKey[p])
                out == FileAt(fs, OutputPath(filePath[p]))
            IN  /\ out # <<>>
                /\ Verify(pub, out[1], bytes)
                /\ \A t \in TamperedContents :
                     t # bytes => ~Verify(pub, out[1], t)

C7_Witness ==
    \E p \in Procs :
        /\ pc[p] = "done" /\ SoleWriter(p)
        /\ filePath[p] = AppPath
        /\ fs0[Resolve(AppPath)] = <<200>>
        /\ FileAt(fs, SigPath) = <<sig[p]>>
        /\ Verify(PublicKeyOf(privateKey[p]), sig[p], <<200>>)

SoloKey ==
    IF MissingConfig(env) THEN [err |-> "ConfigError", key |-> 0]
    ELSE IF ~Exists(fs0, env.LINUX_CSC_LINK) THEN [err |-> "ENOENT", key |-> 0]
    ELSE LET der == decode64(encode64(fs0[Resolve(env.LINUX_CSC_LINK)])) IN
         IF ~fromDerOk(der) THEN [err |-> "DerError", key |-> 0]
         ELSE IF ~pkcs12MacOk(der, env.LINUX_CSC_KEY_PASSWORD)
              THEN [err |-> "MacError", key |-> 0]
         ELSE LET bag == getBags(pkcs12FromAsn1(der)) IN
              IF Len(bag) = 0 THEN [err |-> "TypeError", key |-> 0]
              ELSE [err |-> "", key |-> FirstKey(bag)]

\* The outcomes signer(path) can have when it runs alone on the initial
\* filesystem: the error ("" for success) and the file at <path>-sig.bin.
SoloResults(path) ==
    LET old == FileAt(fs0, OutputPath(path)) IN
    IF ~Exists(fs0, path) THEN {<<"ENOENT", old>>}
    ELSE IF SoloKey.err # "" THEN {<<SoloKey.err, old>>}
    ELSE IF SoloKey.key = 0 THEN {<<"TypeError", old>>}
    ELSE LET s == bufferFromBinary(rsaSign(SoloKey.key,
                      sha512(toBinaryString(fs0[Resolve(path)]))))
         IN  {<<"", <<s>>>>, <<"EACCES", old>>}
             \cup {<<"EIO", <<SubSeq(s, 1, n)>>>> : n \in 0..(Len(s) - 1)}

\* The outcome of an ended invocation and the file at its <filePath>-sig.bin.
Result(p) == <<err[p], FileAt(fs, OutputPath(filePath[p]))>>

\* The invocation's target is a different file from every other target.
OwnTarget(p) ==
    \A q \in Procs \ {p} : Resolve(filePath[q]) # Resolve(filePath[p])

\* The invocation never opened another invocation's output for writing.
WritesNoOtherOutput(p) ==
    \A q \in Procs \ {p} :
        \A i \in 1..Len(WritePaths(p)) :
            /\ WritePaths(p)[i] # OutLoc(q)
            /\ sigOutPath[q] # <<>> => WritePaths(p)[i] # Resolve(sigOutPath[q])

C10_WriteIsLastAndOnce ==
    \A p \in Procs :
        /\ Len(WritePaths(p)) <= 1
        /\ Did(p, "write") =>
             /\ Ops(p) = <<"readTarget", "config", "readBundle", "parseBundle",
                           "getBags", "digest", "sign", "write">>
             /\ sig[p] # <<>> /\ privateKey[p] # 0
        /\ (pc[p] = "failed" /\ ~Did(p, "write") /\ SoleWriter(p)) =>
             FileAt(fs, OutputPath(filePath[p])) =
             FileAt(fs0, OutputPath(filePath[p]))

C10_Witness ==
    \E p \in Procs :
        /\ pc[p] = "failed" /\ ~Did(p, "write") /\ Did(p, "sign")
        /\ filePath[p] = AppPath
        /\ FileAt(fs, SigPath) = <<OldSig>>

====
